---- MODULE Spec2Model ----
(***************************************************************************)
(* State-machine model of the two execution engines of flowforge-nexus:    *)
(*   - SagaEngine      (src/src/sagas/saga-engine.ts)                      *)
(*   - WorkflowEngine  (src/src/core/workflow-engine.ts) together with the *)
(*     WorkflowRegistry it consults (src/unnamed/part_002).                *)
(*                                                                         *)
(* Both engines are async TypeScript.  An action of this model is the code *)
(* that runs between two consecutive `await`s of one call: JavaScript runs *)
(* such a stretch without interleaving, and every `await` is a point where *)
(* another call (cancelSaga, cancelExecution, a registry operation) may    *)
(* run.  The collaborators that are awaited (step runner, compensation     *)
(* runner, state store) answer nondeterministically: they return or throw. *)
(***************************************************************************)
EXTENDS Integers, Sequences, FiniteSets, TLC

VARIABLES
    sagas,      \* SagaEngine: saga execution id -> call frame + executionContext
    repo,       \* WorkflowRegistry.workflowRepository: workflow id -> entity
    cache,      \* WorkflowRegistry.workflowCache: workflow id -> definition
    execs,      \* WorkflowEngine: call id -> call frame + WorkflowExecution
    clock,      \* the wall clock `new Date()` reads
    calls       \* WorkflowRegistry: the frames of its calls that are awaited

vars == <<sagas, repo, cache, execs, clock, calls>>

\* ------------------------------------------------------------------ bounds
\* Longest saga definition that is explored.
MaxSagaSteps == 3

\* Most steps one workflow execution hands to the step runner.
MaxRunnerCalls == 4

\* Most definitions registered in a behaviour of WfSpec.
MaxRegistered == 1

\* Latest reading of the wall clock.
MaxClock == 2

\* ----------------------------------------------------------- small helpers
Reverse(s) == [i \in 1..Len(s) |-> s[Len(s) + 1 - i]]

SeqToSet(s) == {s[i] : i \in 1..Len(s)}

\* One entry of an execution's observable history: a notification handed
\* to the event emitter ("emit"), a step handed to the step runner
\* ("step"), a compensation handed to the compensation runner ("comp"), or
\* a failure caught by executeStep for the step in flight ("threw").  A
\* step call of the workflow engine carries what it passes as `data`
\* (line 133): the trigger event, the error or the execution context.
Emitted(name) == [k |-> "emit", name |-> name, id |-> 0, input |-> ""]

StepCall(id) == [k |-> "step", name |-> "", id |-> id, input |-> ""]

StepCallWith(id, input) == [k |-> "step", name |-> "", id |-> id, input |-> input]

StepThrew(id, error) == [k |-> "threw", name |-> error, id |-> id, input |-> ""]

CompCall(id) == [k |-> "comp", name |-> "", id |-> id, input |-> ""]

\* A compensation the compensation runner threw on ("compThrew").
CompThrew(id) == [k |-> "compThrew", name |-> "", id |-> id, input |-> ""]

\* The ids of the entries of kind k of a history, in order.
IdsOf(log, k) ==
    LET sel == SelectSeq(log, LAMBDA x : x.k = k)
    IN  [i \in 1..Len(sel) |-> sel[i].id]

HasEmitted(log, name) == \E i \in 1..Len(log) : log[i] = Emitted(name)

CountEmitted(log, name) == Cardinality({i \in 1..Len(log) : log[i] = Emitted(name)})

(***************************************************************************)
(*                              SAGA ENGINE                                *)
(***************************************************************************)
Strategies == {"forward", "backward", "mixed"}

\* A saga definition: steps 1..n in definition order.  The steps in withComp
\* declare a compensation; step depStep (0: none) declares dependencies {depOn}.
MkSagaDef(n, withComp, depStep, depOn, strategy) ==
    [steps |-> [i \in 1..n |->
                   [id |-> i,
                    compensation |-> (i \in withComp),
                    hasDeps |-> (i = depStep),
                    dependencies |-> IF i = depStep THEN {depOn} ELSE {}]],
     strategy |-> strategy]

SagaDefsOfLen(n) ==
    {MkSagaDef(n, c, ds, dd, st) :
        c \in SUBSET (1..n), ds \in 0..n, dd \in 1..n, st \in Strategies}

SagaDefs == UNION {SagaDefsOfLen(n) : n \in 1..MaxSagaSteps}

NoSagaDef == [steps |-> <<>>, strategy |-> "backward"]

\* The frame of a startSaga call that has not been made yet.
IdleSaga ==
    [pc |-> "idle", def |-> NoSagaDef, inLedger |-> FALSE,
     status |-> "none", currentStep |-> 0, data |-> {},
     completedSteps |-> <<>>, failedSteps |-> <<>>,
     compQueue |-> <<>>, failure |-> "none", raised |-> "none",
     compRaised |-> FALSE, log |-> <<>>]

SagaEmit(s, name) == [s EXCEPT !.log = Append(@, Emitted(name))]

\* checkDependencies answering that the dependencies are met, whatever
\* has completed.
CheckDependenciesAlwaysMet(dependencies, completedSteps) == TRUE

\* checkDependencies: every dependency id is in completedSteps.
CheckDependencies(dependencies, completedSteps) ==
    \A dep \in dependencies : dep \in SeqToSet(completedSteps)

\* Array.prototype.find over the definition's steps: the index of the first
\* step with this id, 0 when there is none.
FindSagaStep(steps, stepId) ==
    IF \E i \in 1..Len(steps) : steps[i].id = stepId
    THEN CHOOSE i \in 1..Len(steps) :
            /\ steps[i].id = stepId
            /\ \A j \in 1..(i - 1) : steps[j].id # stepId
    ELSE 0

\* executeSaga, lines 131-152: the code after the step loop when nothing
\* was thrown out of it, then the finally block.  The promise of executeSaga
\* is then settled and startSaga resumes at its await.
FinishExecuteSaga(s) ==
    LET done == IF Len(s.failedSteps) = 0
                THEN SagaEmit([s EXCEPT !.status = "completed"], "saga.completed")
                ELSE s
    IN  [done EXCEPT !.inLedger = FALSE, !.pc = "awaitExec", !.failure = "none"]

\* The compensation loops (lines 232-250 and 266-283) from the head of
\* compQueue: steps without a compensation are skipped; the first step that
\* declares one is handed to the compensation runner, which is awaited.
\* With nothing left the walk returns to handleStepFailure's await.
RECURSIVE CompensationWalk(_)
CompensationWalk(s) ==
    IF s.compQueue = <<>>
    THEN [s EXCEPT !.pc = "awaitComp", !.failure = "none"]
    ELSE IF Head(s.compQueue).compensation
         THEN [s EXCEPT !.pc = "compAction",
                        !.log = Append(@, CompCall(Head(s.compQueue).id))]
         ELSE CompensationWalk([s EXCEPT !.compQueue = Tail(@)])

\* BackwardQueue with the reversal left out: the completed steps are walked
\* in completion order.
BackwardQueueNotReversed(s) ==
    LET ids   == s.completedSteps
        found == SelectSeq(ids, LAMBDA id : FindSagaStep(s.def.steps, id) # 0)
    IN  [i \in 1..Len(found) |-> s.def.steps[FindSagaStep(s.def.steps, found[i])]]

\* executeBackwardCompensation, lines 230-234: completedSteps reversed, each
\* id resolved with steps.find (an id that resolves to no step is skipped).
BackwardQueue(s) ==
    LET ids   == Reverse(s.completedSteps)
        found == SelectSeq(ids, LAMBDA id : FindSagaStep(s.def.steps, id) # 0)
    IN  [i \in 1..Len(found) |-> s.def.steps[FindSagaStep(s.def.steps, found[i])]]

\* The forward walk starting at the failed step itself: steps.slice(currentStep).
ForwardQueueFromFailed(s) ==
    SubSeq(s.def.steps, s.currentStep + 1, Len(s.def.steps))

\* executeForwardCompensation, lines 262-264: steps.slice(currentStep + 1).
ForwardQueue(s) ==
    SubSeq(s.def.steps, s.currentStep + 2, Len(s.def.steps))

\* handleStepFailure, lines 162-193, up to its first await: the strategy is
\* compensationPolicy.strategy; "mixed" matches neither branch, so the saga
\* is marked compensated at once.
HandleStepFailure(s) ==
    CASE s.def.strategy = "backward" ->
            CompensationWalk([s EXCEPT !.compQueue = BackwardQueue(s)])
      [] s.def.strategy = "forward" ->
            CompensationWalk([s EXCEPT !.compQueue = ForwardQueue(s)])
      [] OTHER ->
            [SagaEmit([s EXCEPT !.status = "compensated"], "saga.compensated")
                EXCEPT !.pc = "awaitHandle", !.failure = "none"]

\* executeSaga's inner catch, lines 105-125: record the failure, then
\* handleStepFailure.
SagaStepFailed(s, error) ==
    LET step == s.def.steps[s.currentStep + 1]
    IN  HandleStepFailure(
            [s EXCEPT !.failedSteps = Append(@, [stepId |-> step.id, error |-> error])])

\* The step loop ordered by dependencies: a step whose dependencies have
\* not completed is passed over and the loop goes on to the next step.
RECURSIVE SagaLoopFromSkipping(_, _)
SagaLoopFromSkipping(s, i) ==
    IF i > Len(s.def.steps)
    THEN FinishExecuteSaga(s)
    ELSE LET step == s.def.steps[i]
             at   == [s EXCEPT !.currentStep = i - 1]
         IN  IF step.hasDeps /\ ~CheckDependencies(step.dependencies, at.completedSteps)
             THEN SagaLoopFromSkipping(s, i + 1)
             ELSE [at EXCEPT !.pc = "execStep", !.log = Append(@, StepCall(step.id))]

\* executeSaga, lines 73-89: the loop from (1-based) index i up to the await
\* of the step runner.
SagaLoopFrom(s, i) ==
    IF i > Len(s.def.steps)
    THEN FinishExecuteSaga(s)
    ELSE LET step == s.def.steps[i]
             at   == [s EXCEPT !.currentStep = i - 1]
         IN  IF step.hasDeps /\ ~CheckDependencies(step.dependencies, at.completedSteps)
             THEN SagaStepFailed(at, "DependencyNotMet")
             ELSE [at EXCEPT !.pc = "execStep", !.log = Append(@, StepCall(step.id))]

\* startSaga, lines 27-55, and executeSaga up to its first await.
StartSaga(e, def) ==
    /\ sagas[e].pc = "idle"
    /\ LET ctx == [IdleSaga EXCEPT !.def = def, !.status = "running",
                                    !.currentStep = 0, !.inLedger = TRUE]
       IN  sagas' = [sagas EXCEPT ![e] = SagaLoopFrom(SagaEmit(ctx, "saga.started"), 1)]
    /\ UNCHANGED <<calls, repo, cache, execs, clock>>

\* The step runner returns and the step's id is pushed onto completedSteps
\* twice.
SagaStepReturnsPushedTwice(e) ==
    /\ sagas[e].pc = "execStep"
    /\ LET s    == sagas[e]
           step == s.def.steps[s.currentStep + 1]
           upd  == [s EXCEPT !.data = @ \cup {step.id},
                             !.completedSteps = Append(Append(@, step.id), step.id)]
       IN  sagas' = [sagas EXCEPT ![e] =
                        SagaLoopFrom(SagaEmit(upd, "saga.step.completed"), s.currentStep + 2)]
    /\ UNCHANGED <<calls, repo, cache, execs, clock>>

\* The step runner returns: lines 91-103, then the next loop iteration.
SagaStepReturns(e) ==
    /\ sagas[e].pc = "execStep"
    /\ LET s    == sagas[e]
           step == s.def.steps[s.currentStep + 1]
           upd  == [s EXCEPT !.data = @ \cup {step.id},
                             !.completedSteps = Append(@, step.id)]
       IN  sagas' = [sagas EXCEPT ![e] =
                        SagaLoopFrom(SagaEmit(upd, "saga.step.completed"), s.currentStep + 2)]
    /\ UNCHANGED <<calls, repo, cache, execs, clock>>

\* The step runner throws: the inner catch.
SagaStepThrows(e) ==
    /\ sagas[e].pc = "execStep"
    /\ sagas' = [sagas EXCEPT ![e] = SagaStepFailed(sagas[e], "StepExecutionFailed")]
    /\ UNCHANGED <<calls, repo, cache, execs, clock>>

\* The compensation runner returns: the walk goes on with the next step.
CompensationReturns(e) ==
    /\ sagas[e].pc = "compAction"
    /\ sagas' = [sagas EXCEPT ![e] =
                    CompensationWalk([sagas[e] EXCEPT !.compQueue = Tail(@)])]
    /\ UNCHANGED <<calls, repo, cache, execs, clock>>

\* The compensation runner throws, and the walk logs it and goes on with
\* the next step instead of rethrowing.
CompensationThrowsSwallowed(e) ==
    /\ sagas[e].pc = "compAction"
    /\ sagas' = [sagas EXCEPT ![e] =
                    CompensationWalk(
                        [sagas[e] EXCEPT !.compQueue = Tail(@), !.compRaised = TRUE,
                                         !.log = Append(@, CompThrew(Head(sagas[e].compQueue).id))])]
    /\ UNCHANGED <<calls, repo, cache, execs, clock>>

\* The compensation runner throws: lines 242-248 / 275-281 rethrow, which
\* rejects the walk; handleStepFailure resumes at its await.
CompensationThrows(e) ==
    /\ sagas[e].pc = "compAction"
    /\ sagas' = [sagas EXCEPT ![e] =
                    [sagas[e] EXCEPT !.pc = "awaitComp", !.failure = "CompensationFailed",
                                     !.compRaised = TRUE,
                                     !.log = Append(@, CompThrew(Head(sagas[e].compQueue).id))]]
    /\ UNCHANGED <<calls, repo, cache, execs, clock>>

\* handleStepFailure resumes after the walk: lines 188-193 when the walk
\* returned, lines 195-209 when it threw.
ResumeHandleStepFailure(e) ==
    /\ sagas[e].pc = "awaitComp"
    /\ LET s == sagas[e]
       IN  sagas' = [sagas EXCEPT ![e] =
              IF s.failure = "none"
              THEN [SagaEmit([s EXCEPT !.status = "compensated"], "saga.compensated")
                       EXCEPT !.pc = "awaitHandle"]
              ELSE [SagaEmit([s EXCEPT !.status = "compensation_failed"],
                             "saga.compensation_failed")
                       EXCEPT !.pc = "awaitHandle"]]
    /\ UNCHANGED <<calls, repo, cache, execs, clock>>

\* executeSaga resuming after handleStepFailure with the `break` left out:
\* the step loop goes on with the step after the failed one.
ResumeExecuteSagaNoBreak(e) ==
    /\ sagas[e].pc = "awaitHandle"
    /\ LET s == sagas[e]
       IN  sagas' = [sagas EXCEPT ![e] =
              IF s.failure = "none"
              THEN SagaLoopFrom(s, s.currentStep + 2)
              ELSE [SagaEmit([s EXCEPT !.status = "failed"], "saga.failed")
                       EXCEPT !.inLedger = FALSE, !.pc = "awaitExec"]]
    /\ UNCHANGED <<calls, repo, cache, execs, clock>>

\* executeSaga resumes after handleStepFailure: `break` and lines 131-152
\* when it returned; when it threw, the error leaves the inner catch and
\* reaches the outer catch (lines 139-148), then the finally block.
ResumeExecuteSaga(e) ==
    /\ sagas[e].pc = "awaitHandle"
    /\ LET s == sagas[e]
       IN  sagas' = [sagas EXCEPT ![e] =
              IF s.failure = "none"
              THEN FinishExecuteSaga(s)
              ELSE [SagaEmit([s EXCEPT !.status = "failed"], "saga.failed")
                       EXCEPT !.inLedger = FALSE, !.pc = "awaitExec"]]
    /\ UNCHANGED <<calls, repo, cache, execs, clock>>

\* startSaga resumes after executeSaga: returns the id (line 57) or logs
\* and rethrows (lines 58-61).
ResumeStartSaga(e) ==
    /\ sagas[e].pc = "awaitExec"
    /\ LET s == sagas[e]
       IN  sagas' = [sagas EXCEPT ![e] =
              IF s.failure = "none"
              THEN [s EXCEPT !.pc = "returned"]
              ELSE [s EXCEPT !.pc = "thrown", !.raised = s.failure]]
    /\ UNCHANGED <<calls, repo, cache, execs, clock>>

\* cancelSaga, lines 298-306.  The call may come at any await of startSaga,
\* and before or after it.
CancelSaga(e) ==
    /\ sagas' = [sagas EXCEPT ![e] =
                    IF sagas[e].inLedger /\ sagas[e].status = "running"
                    THEN SagaEmit([sagas[e] EXCEPT !.status = "cancelled"], "saga.cancelled")
                    ELSE sagas[e]]
    /\ UNCHANGED <<calls, repo, cache, execs, clock>>

\* The saga executions a SagaSpec behaviour holds.
SagaIds == {"saga1"}

SagaInit ==
    /\ sagas = [e \in SagaIds |-> IdleSaga]
    /\ repo = <<>>
    /\ cache = <<>>
    /\ execs = <<>>
    /\ clock = 0
    /\ calls = <<>>

SagaNext ==
    \E e \in SagaIds :
        \/ \E def \in SagaDefs : StartSaga(e, def)
        \/ SagaStepReturns(e)
        \/ SagaStepThrows(e)
        \/ CompensationReturns(e)
        \/ CompensationThrows(e)
        \/ ResumeHandleStepFailure(e)
        \/ ResumeExecuteSaga(e)
        \/ ResumeStartSaga(e)
        \/ CancelSaga(e)

SagaSpec == SagaInit /\ [][SagaNext]_vars

SagaEnded(s) == s.pc \in {"returned", "thrown"}

(***************************************************************************)
(*                          WORKFLOW REGISTRY                              *)
(***************************************************************************)
\* Step ids are numbers; 0 stands for "no step" (an absent errorHandler).
\* A workflow step (WorkflowStep, plus the `dependencies` the engine reads).
\* retryPolicy is the policy's maxAttempts, 0 when the step carries none.
WfStep(id, next, errorHandler) ==
    [id |-> id, name |-> "step", type |-> "action", config |-> TRUE,
     next |-> next, errorHandler |-> errorHandler, retryPolicy |-> 0,
     hasDeps |-> FALSE, dependencies |-> {}]

WfTrigger(type, eventType) == [type |-> type, eventType |-> eventType]

\* The definitions that are registered and executed.
\*   wfA: the linear workflow step1 -> step2 -> step3 with two triggers.
\*   wfB: step1 and step2 point at each other through `next` (a cycle);
\*        step1's errorHandler is step 3, step2's names no step (9).
\*   wfC: no steps at all (validation reports "At least one step is required").
\*   wfD: its trigger's type (7) is no step id; step 2 depends on step 1.
\*   wfE: its trigger starts step 2, which depends on step 1; step 1
\*        carries a retry policy of two attempts.
WorkflowDefs ==
    {[id |-> "wfA", name |-> "linear", version |-> "1",
      triggers |-> <<WfTrigger(1, "evA"), WfTrigger(1, "evB")>>,
      steps |-> <<WfStep(1, <<2>>, 0), WfStep(2, <<3>>, 0), WfStep(3, <<>>, 0)>>],
     [id |-> "wfB", name |-> "cyclic", version |-> "1",
      triggers |-> <<WfTrigger(1, "evA")>>,
      steps |-> <<WfStep(1, <<2>>, 3), WfStep(2, <<1>>, 9), WfStep(3, <<>>, 0)>>],
     [id |-> "wfC", name |-> "empty", version |-> "1",
      triggers |-> <<WfTrigger(1, "evA")>>,
      steps |-> <<>>],
     [id |-> "wfD", name |-> "untriggered", version |-> "1",
      triggers |-> <<WfTrigger(7, "evA")>>,
      steps |-> <<WfStep(1, <<>>, 0),
                  [WfStep(2, <<>>, 0) EXCEPT !.hasDeps = TRUE, !.dependencies = {1}]>>],
     [id |-> "wfE", name |-> "dependent", version |-> "1",
      triggers |-> <<WfTrigger(2, "evA")>>,
      steps |-> <<[WfStep(1, <<>>, 0) EXCEPT !.retryPolicy = 2],
                  [WfStep(2, <<>>, 0) EXCEPT !.hasDeps = TRUE, !.dependencies = {1}]>>]}

\* The id the repository gives an entity on save: registerWorkflow does not
\* pass workflow.id to create(), so the store decides; it may or may not be
\* the id the caller's definition carries.
GeneratedId(id) ==
    CASE id = "wfA" -> "entA" [] id = "wfB" -> "entB"
      [] id = "wfC" -> "entC" [] id = "wfD" -> "entD" [] OTHER -> "entE"

WorkflowIds == {w.id : w \in WorkflowDefs} \cup {GeneratedId(w.id) : w \in WorkflowDefs}

EventTypes == {"evA", "evB"}

NoWorkflowDef == [id |-> "", name |-> "", version |-> "", triggers |-> <<>>, steps |-> <<>>]

\* registerWorkflow, lines 31-40: the entity created from a definition.
NewEntity(w) ==
    [name |-> w.name, version |-> w.version, triggers |-> w.triggers,
     steps |-> w.steps, status |-> "draft", isActive |-> FALSE]

\* getWorkflow, lines 72-80: the definition built from an entity; the
\* entity's status and isActive are not carried over.
ToDefinition(id, entity) ==
    [id |-> id, name |-> entity.name, version |-> entity.version,
     triggers |-> entity.triggers, steps |-> entity.steps]

\* registerWorkflow, lines 17-53; entityId is the id the store assigns.
\* With an entity of the same name and version stored, the call throws
\* before it changes anything.
RegisterWorkflow(w, entityId) ==
    /\ ~\E i \in DOMAIN repo : repo[i].name = w.name /\ repo[i].version = w.version
    /\ entityId \notin DOMAIN repo
    /\ repo' = (entityId :> NewEntity(w)) @@ repo
    /\ cache' = (w.id :> w) @@ cache
    /\ UNCHANGED <<calls, sagas, execs, clock>>

\* getWorkflow, lines 55-90: what it returns and the cache it leaves.
GetWorkflow(workflowId) ==
    IF workflowId \in DOMAIN cache
    THEN [found |-> TRUE, def |-> cache[workflowId], cache |-> cache]
    ELSE IF workflowId \in DOMAIN repo
         THEN LET workflow == ToDefinition(workflowId, repo[workflowId])
              IN  [found |-> TRUE, def |-> workflow,
                   cache |-> (workflowId :> workflow) @@ cache]
         ELSE [found |-> FALSE, def |-> NoWorkflowDef, cache |-> cache]

\* A getWorkflow call of its own (through the service or listWorkflows).
GetWorkflowCall(workflowId) ==
    /\ cache' = GetWorkflow(workflowId).cache
    /\ UNCHANGED <<calls, sagas, repo, execs, clock>>

CacheWithout(workflowId) == [i \in DOMAIN cache \ {workflowId} |-> cache[i]]

\* publishWorkflow, lines 217-243 (throws, changing nothing, for an id the
\* repository does not hold).
PublishWorkflow(workflowId) ==
    /\ workflowId \in DOMAIN repo
    /\ repo' = [repo EXCEPT ![workflowId].status = "published",
                            ![workflowId].isActive = TRUE]
    /\ cache' = CacheWithout(workflowId)
    /\ UNCHANGED <<calls, sagas, execs, clock>>

\* unpublishWorkflow, lines 245-271.
UnpublishWorkflow(workflowId) ==
    /\ workflowId \in DOMAIN repo
    /\ repo' = [repo EXCEPT ![workflowId].status = "draft",
                            ![workflowId].isActive = FALSE]
    /\ cache' = CacheWithout(workflowId)
    /\ UNCHANGED <<calls, sagas, execs, clock>>

\* hasCircularDependencies, lines 343-347.
HasCircularDependencies(workflow) == FALSE

\* findOrphanedSteps, lines 349-376: the step ids that are no step's `next`
\* entry and no trigger's type.
FindOrphanedSteps(workflow) ==
    LET referencedSteps ==
            UNION {SeqToSet(workflow.steps[i].next) : i \in 1..Len(workflow.steps)}
            \cup {workflow.triggers[i].type : i \in 1..Len(workflow.triggers)}
    IN  {workflow.steps[i].id : i \in 1..Len(workflow.steps)} \ referencedSteps

\* validateWorkflow, lines 273-341: the set of error messages it collects.
ValidationErrors(workflow) ==
    {m \in {"Workflow name is required", "Workflow version is required",
            "At least one trigger is required", "At least one step is required",
            "Trigger type is required", "Event type is required for trigger",
            "Step ID is required", "Step name is required", "Step type is required",
            "Step configuration is required",
            "Workflow contains circular dependencies"} :
        CASE m = "Workflow name is required" -> workflow.name = ""
          [] m = "Workflow version is required" -> workflow.version = ""
          [] m = "At least one trigger is required" -> Len(workflow.triggers) = 0
          [] m = "At least one step is required" -> Len(workflow.steps) = 0
          [] m = "Trigger type is required" ->
                \E i \in 1..Len(workflow.triggers) : workflow.triggers[i].type = 0
          [] m = "Event type is required for trigger" ->
                \E i \in 1..Len(workflow.triggers) : workflow.triggers[i].eventType = ""
          [] m = "Step ID is required" ->
                \E i \in 1..Len(workflow.steps) : workflow.steps[i].id = 0
          [] m = "Step name is required" ->
                \E i \in 1..Len(workflow.steps) : workflow.steps[i].name = ""
          [] m = "Step type is required" ->
                \E i \in 1..Len(workflow.steps) : workflow.steps[i].type = ""
          [] m = "Step configuration is required" ->
                \E i \in 1..Len(workflow.steps) : ~workflow.steps[i].config
          [] OTHER -> HasCircularDependencies(workflow)}

\* validateWorkflow, lines 336-340: the result.
ValidateWorkflow(workflow) ==
    [isValid |-> ValidationErrors(workflow) = {},
     errors |-> ValidationErrors(workflow),
     orphaned |-> FindOrphanedSteps(workflow)]

(***************************************************************************)
(*                           WORKFLOW ENGINE                               *)
(***************************************************************************)
NoResult == [success |-> TRUE, data |-> FALSE, nextSteps |-> <<>>]

\* The frame of an executeWorkflow call that has not been made yet.  The
\* WorkflowExecution fields are status .. duration (-1: not set); `stored`
\* remembers what the repository held for workflowId when getWorkflow ran.
IdleExec ==
    [pc |-> "idle", workflowId |-> "", eventType |-> "",
     found |-> FALSE, stored |-> "absent", def |-> NoWorkflowDef, valid |-> FALSE,
     inLedger |-> FALSE, status |-> "none", currentStep |-> 0,
     context |-> [keys |-> {}, completedSteps |-> <<>>],
     error |-> "", startedAt |-> -1, completedAt |-> -1, duration |-> -1,
     phase |-> "start", startQueue |-> <<>>, pendingSteps |-> <<>>,
     result |-> NoResult, failure |-> "none", raised |-> "none", log |-> <<>>]

WfEmit(x, name) == [x EXCEPT !.log = Append(@, Emitted(name))]

\* definition.steps.find(s => s.id === stepId): the index of the first step
\* with this id, 0 when there is none.
FindWorkflowStep(steps, stepId) ==
    IF \E i \in 1..Len(steps) : steps[i].id = stepId
    THEN CHOOSE i \in 1..Len(steps) :
            /\ steps[i].id = stepId
            /\ \A j \in 1..(i - 1) : steps[j].id # stepId
    ELSE 0

\* What the step runner may answer for a step when it returns: a result
\* with data and the step's successors as nextSteps, or a bare result.
RunnerResults(step) ==
    {[success |-> TRUE, data |-> TRUE, nextSteps |-> step.next],
     [success |-> TRUE, data |-> FALSE, nextSteps |-> <<>>]}

\* evaluateTriggerConditions, lines 190-198.
EvaluateTriggerConditions(trigger, eventType) == TRUE

\* findStartSteps with the comparison of the trigger's eventType left out.
FindStartStepsAnyEvent(definition, eventType) ==
    [i \in 1..Len(definition.triggers) |-> definition.triggers[i].type]

\* findStartSteps, lines 181-188: the `type` of every matching trigger.
FindStartSteps(definition, eventType) ==
    LET matching == SelectSeq(definition.triggers,
                        LAMBDA trigger : /\ trigger.eventType = eventType
                                         /\ EvaluateTriggerConditions(trigger, eventType))
    IN  [i \in 1..Len(matching) |-> matching[i].type]

\* getCompletedSteps, lines 223-226.
GetCompletedSteps(x) == x.context.completedSteps

\* findPendingSteps, lines 200-216.
FindPendingSteps(x) ==
    LET completedSteps == SeqToSet(GetCompletedSteps(x))
        allSteps == [i \in 1..Len(x.def.steps) |-> x.def.steps[i].id]
        ready(stepId) ==
            LET step == x.def.steps[FindWorkflowStep(x.def.steps, stepId)]
            IN  IF step.hasDeps THEN step.dependencies \subseteq completedSteps ELSE TRUE
    IN  SelectSeq(allSteps, ready)

\* canExecuteStep, lines 218-221.
CanExecuteStep(step, x) == TRUE

\* The runner calls one execution has made.
RunnerCalls(x) == Len(IdsOf(x.log, "step"))

\* executeStep, lines 119-135, up to the await of the step runner.  A step
\* id that names no step throws out of executeStep.  The runner gets
\* `input || execution.context` as its data.
ExecuteStep(x, stepId, input) ==
    IF FindWorkflowStep(x.def.steps, stepId) = 0
    THEN [x EXCEPT !.pc = "stepFailed", !.failure = "StepNotFound"]
    ELSE IF RunnerCalls(x) >= MaxRunnerCalls
         THEN [x EXCEPT !.pc = "capped"]
         ELSE [x EXCEPT !.currentStep = stepId, !.pc = "inStep",
                        !.log = Append(@, StepCallWith(stepId, input))]

\* processNextSteps with executeStep not awaited: every queued step that
\* exists is handed to the step runner in one go.
RECURSIVE ProcessQueueNotAwaited(_)
ProcessQueueNotAwaited(x) ==
    IF x.pendingSteps = <<>>
    THEN IF x.pc = "inStep" THEN x ELSE [x EXCEPT !.pc = "walkDone"]
    ELSE LET stepId == Head(x.pendingSteps)
             rest   == [x EXCEPT !.pendingSteps = Tail(@)]
         IN  IF FindWorkflowStep(x.def.steps, stepId) # 0
             THEN ProcessQueueNotAwaited(
                      [rest EXCEPT !.currentStep = stepId, !.pc = "inStep",
                                   !.log = Append(@, StepCallWith(stepId, "context"))])
             ELSE ProcessQueueNotAwaited(rest)

\* processNextSteps, the loop of lines 166-178 from its head to the next
\* await of executeStep, or to its end.
RECURSIVE ProcessQueue(_)
ProcessQueue(x) ==
    IF x.pendingSteps = <<>>
    THEN [x EXCEPT !.pc = "walkDone"]
    ELSE LET stepId == Head(x.pendingSteps)
             rest   == [x EXCEPT !.pendingSteps = Tail(@)]
             idx    == FindWorkflowStep(x.def.steps, stepId)
         IN  IF idx # 0 /\ CanExecuteStep(x.def.steps[idx], x)
             THEN ExecuteStep(rest, stepId, "context")
             ELSE ProcessQueue(rest)

\* The caller of executeStep resumes with its result: the loop over the
\* start steps (lines 86-88) and then processNextSteps (line 164), or the
\* queue loop (lines 173-176).
AfterStep(x) ==
    IF x.phase = "start"
    THEN IF x.startQueue # <<>>
         THEN ExecuteStep([x EXCEPT !.startQueue = Tail(@)], Head(x.startQueue), "event")
         ELSE ProcessQueue([x EXCEPT !.phase = "queue",
                                     !.pendingSteps = FindPendingSteps(x)])
    ELSE ProcessQueue([x EXCEPT !.pendingSteps = @ \o x.result.nextSteps])

\* handleStepError, lines 228-244.
HandleStepError(x, step, error) ==
    IF FindWorkflowStep(x.def.steps, step.errorHandler) # 0
    THEN ExecuteStep(x, step.errorHandler, "error")
    ELSE [x EXCEPT !.pc = "stepDone",
                   !.result = [success |-> FALSE, data |-> FALSE, nextSteps |-> <<>>]]

\* executeStep's catch, lines 148-157, for the step in flight.
StepFailure(x, error) ==
    LET step   == x.def.steps[FindWorkflowStep(x.def.steps, x.currentStep)]
        caught == [x EXCEPT !.log = Append(@, StepThrew(step.id, error))]
    IN  IF step.errorHandler # 0
        THEN HandleStepError(caught, step, error)
        ELSE [caught EXCEPT !.pc = "stepFailed", !.failure = error]

\* executeWorkflowSteps' catch that only marks the record failed: no error
\* message, no completedAt, no duration, no notification.
FailExecutionStatusOnly(x, error) ==
    [x EXCEPT !.status = "failed", !.pc = "awaitSteps", !.failure = error]

\* executeWorkflowSteps' catch, lines 100-109.
FailExecution(x, error) ==
    [WfEmit([x EXCEPT !.status = "failed", !.error = error,
                      !.completedAt = clock, !.duration = clock - x.startedAt],
            "workflow.execution.failed")
        EXCEPT !.pc = "awaitSteps", !.failure = error]

\* What the repository holds for an id: absent, draft, or published and active.
StoredStatus(workflowId) ==
    IF workflowId \notin DOMAIN repo THEN "absent"
    ELSE IF repo[workflowId].status = "published" /\ repo[workflowId].isActive
         THEN "published" ELSE "draft"

\* executeWorkflow, line 35: the call and its getWorkflow.
ExecuteWorkflow(c, workflowId, eventType) ==
    /\ execs[c].pc = "idle"
    /\ LET got == GetWorkflow(workflowId)
       IN  /\ cache' = got.cache
           /\ execs' = [execs EXCEPT ![c] =
                  [IdleExec EXCEPT !.pc = "gotDef", !.workflowId = workflowId,
                                   !.eventType = eventType, !.found = got.found,
                                   !.def = got.def, !.stored = StoredStatus(workflowId)]]
    /\ UNCHANGED <<calls, sagas, repo, clock>>

\* executeWorkflow, lines 36-41: not found, or on to the validator.  The
\* engine's validator is the WorkflowValidator class, whose file is not in
\* the source tree; validateWorkflow of the registry, the one implementation
\* there is, stands for it.
AfterLookup(c) ==
    /\ execs[c].pc = "gotDef"
    /\ LET x == execs[c]
       IN  execs' = [execs EXCEPT ![c] =
              IF ~x.found
              THEN [x EXCEPT !.pc = "thrown", !.raised = "NotFound"]
              ELSE [x EXCEPT !.pc = "validated",
                             !.valid = ValidateWorkflow(x.def).isValid]]
    /\ UNCHANGED <<calls, sagas, repo, cache, clock>>

\* CreateExecution with the record created, stored and announced before
\* the validation result is looked at.
CreateExecutionBeforeValidation(c) ==
    /\ execs[c].pc = "validated"
    /\ LET x       == execs[c]
           created == WfEmit([x EXCEPT !.status = "pending", !.startedAt = clock,
                                       !.inLedger = TRUE],
                             "workflow.execution.started")
       IN  execs' = [execs EXCEPT ![c] =
              IF ~x.valid
              THEN [created EXCEPT !.pc = "thrown", !.raised = "ValidationFailed"]
              ELSE [created EXCEPT !.pc = "created"]]
    /\ UNCHANGED <<calls, sagas, repo, cache, clock>>

\* executeWorkflow, lines 42-59: validation failed, or the execution record
\* is created, put in the ledger and announced.
CreateExecution(c) ==
    /\ execs[c].pc = "validated"
    /\ LET x == execs[c]
       IN  execs' = [execs EXCEPT ![c] =
              IF ~x.valid
              THEN [x EXCEPT !.pc = "thrown", !.raised = "ValidationFailed"]
              ELSE [WfEmit([x EXCEPT !.status = "pending", !.startedAt = clock,
                                     !.inLedger = TRUE],
                           "workflow.execution.started")
                       EXCEPT !.pc = "created"]]
    /\ UNCHANGED <<calls, sagas, repo, cache, clock>>

\* executeWorkflowSteps, lines 77-87, up to the first await.
BeginSteps(c) ==
    /\ execs[c].pc = "created"
    /\ LET x          == [execs[c] EXCEPT !.status = "running"]
           startSteps == FindStartSteps(x.def, x.eventType)
           next       == IF Len(startSteps) = 0
                         THEN FailExecution(x, "NoMatchingTrigger")
                         ELSE ExecuteStep([x EXCEPT !.phase = "start",
                                                    !.startQueue = Tail(startSteps)],
                                          Head(startSteps), "event")
       IN  /\ next.pc # "capped"
           /\ execs' = [execs EXCEPT ![c] = next]
    /\ UNCHANGED <<calls, sagas, repo, cache, clock>>

\* The step runner returns: lines 137-143, up to the await of the state store.
StepReturns(c, result) ==
    /\ execs[c].pc = "inStep"
    /\ LET x == execs[c]
       IN  execs' = [execs EXCEPT ![c] =
              [x EXCEPT !.context.keys = IF result.data THEN @ \cup {x.currentStep} ELSE @,
                        !.result = result, !.pc = "saving"]]
    /\ UNCHANGED <<calls, sagas, repo, cache, clock>>

\* The step runner throws.
StepThrows(c) ==
    /\ execs[c].pc = "inStep"
    /\ LET next == StepFailure(execs[c], "StepExecutionFailed")
       IN  /\ next.pc # "capped"
           /\ execs' = [execs EXCEPT ![c] = next]
    /\ UNCHANGED <<calls, sagas, repo, cache, clock>>

\* saveExecutionState returns: executeStep returns its result (line 146).
SaveReturns(c) ==
    /\ execs[c].pc = "saving"
    /\ execs' = [execs EXCEPT ![c].pc = "stepDone"]
    /\ UNCHANGED <<calls, sagas, repo, cache, clock>>

\* saveExecutionState throws: the same catch as a failing step.
SaveThrows(c) ==
    /\ execs[c].pc = "saving"
    /\ LET next == StepFailure(execs[c], "SaveFailed")
       IN  /\ next.pc # "capped"
           /\ execs' = [execs EXCEPT ![c] = next]
    /\ UNCHANGED <<calls, sagas, repo, cache, clock>>

\* The caller of executeStep resumes with the step's result.
ResumeAfterStep(c) ==
    /\ execs[c].pc = "stepDone"
    /\ LET next == AfterStep(execs[c])
       IN  /\ next.pc # "capped"
           /\ execs' = [execs EXCEPT ![c] = next]
    /\ UNCHANGED <<calls, sagas, repo, cache, clock>>

\* A failure thrown out of executeStep reaches executeWorkflowSteps' catch.
PropagateFailure(c) ==
    /\ execs[c].pc = "stepFailed"
    /\ execs' = [execs EXCEPT ![c] = FailExecution(execs[c], execs[c].failure)]
    /\ UNCHANGED <<calls, sagas, repo, cache, clock>>

\* executeWorkflowSteps, lines 93-98, after processNextSteps returned.
CompleteExecution(c) ==
    /\ execs[c].pc = "walkDone"
    /\ LET x == execs[c]
       IN  execs' = [execs EXCEPT ![c] =
              [WfEmit([x EXCEPT !.status = "completed", !.completedAt = clock,
                                !.duration = clock - x.startedAt],
                      "workflow.execution.completed")
                  EXCEPT !.pc = "awaitSteps", !.failure = "none"]]
    /\ UNCHANGED <<calls, sagas, repo, cache, clock>>

\* executeWorkflow resumes after executeWorkflowSteps: returns the
\* execution (line 64) or logs and rethrows (lines 65-68).
ResumeExecuteWorkflow(c) ==
    /\ execs[c].pc = "awaitSteps"
    /\ LET x == execs[c]
       IN  execs' = [execs EXCEPT ![c] =
              IF x.failure = "none"
              THEN [x EXCEPT !.pc = "returned"]
              ELSE [x EXCEPT !.pc = "thrown", !.raised = x.failure]]
    /\ UNCHANGED <<calls, sagas, repo, cache, clock>>

\* cancelExecution that cancels every running execution of the ledger, not
\* only the one whose id it was given.
CancelEveryExecution(c) ==
    /\ execs' = [d \in DOMAIN execs |->
                    IF execs[d].inLedger /\ execs[d].status = "running"
                    THEN WfEmit([execs[d] EXCEPT !.status = "cancelled",
                                                 !.completedAt = clock],
                                "workflow.execution.cancelled")
                    ELSE execs[d]]
    /\ UNCHANGED <<calls, sagas, repo, cache, clock>>

\* cancelExecution with the test of the status left out.
CancelExecutionUnguarded(c) ==
    /\ execs' = [execs EXCEPT ![c] =
                    IF execs[c].inLedger
                    THEN WfEmit([execs[c] EXCEPT !.status = "cancelled",
                                                 !.completedAt = clock],
                                "workflow.execution.cancelled")
                    ELSE execs[c]]
    /\ UNCHANGED <<calls, sagas, repo, cache, clock>>

\* cancelExecution, lines 254-263; the call may come at any await of
\* executeWorkflow, and before or after it.
CancelExecution(c) ==
    /\ execs' = [execs EXCEPT ![c] =
                    IF execs[c].inLedger /\ execs[c].status = "running"
                    THEN WfEmit([execs[c] EXCEPT !.status = "cancelled",
                                                 !.completedAt = clock],
                                "workflow.execution.cancelled")
                    ELSE execs[c]]
    /\ UNCHANGED <<calls, sagas, repo, cache, clock>>

\* The executeWorkflow calls a WfSpec behaviour holds.
WfCallIds == {"call1"}

WfInit ==
    /\ sagas = <<>>
    /\ repo = <<>>
    /\ cache = <<>>
    /\ execs = [c \in WfCallIds |-> IdleExec]
    /\ clock = 0
    /\ calls = <<>>

\* The step in flight of a call.
StepInFlight(c) ==
    LET idx == FindWorkflowStep(execs[c].def.steps, execs[c].currentStep)
    IN  IF idx = 0 THEN WfStep(0, <<>>, 0) ELSE execs[c].def.steps[idx]

\* The engine driven for one call: definitions are registered (the store
\* keeping the caller's id), then one is executed; the call may be
\* cancelled at any moment.
WfNext ==
    \/ \E w \in WorkflowDefs :
          /\ Cardinality(DOMAIN repo) < MaxRegistered
          /\ RegisterWorkflow(w, w.id)
    \/ \E c \in WfCallIds :
          \/ \E w \in WorkflowDefs, ev \in EventTypes : ExecuteWorkflow(c, w.id, ev)
          \/ AfterLookup(c)
          \/ CreateExecution(c)
          \/ BeginSteps(c)
          \/ \E r \in RunnerResults(StepInFlight(c)) : StepReturns(c, r)
          \/ StepThrows(c)
          \/ SaveReturns(c)
          \/ SaveThrows(c)
          \/ ResumeAfterStep(c)
          \/ PropagateFailure(c)
          \/ CompleteExecution(c)
          \/ ResumeExecuteWorkflow(c)
          \/ CancelExecution(c)

WfSpec == WfInit /\ [][WfNext]_vars

WfEnded(x) == x.pc \in {"returned", "thrown"}

\* The registry driven through register, publish, unpublish and getWorkflow
\* (the store assigning either id), with one executeWorkflow call whose
\* step runner and state store always return.
RegistryNext ==
    \/ \E w \in WorkflowDefs, entityId \in WorkflowIds :
          /\ Cardinality(DOMAIN repo) < MaxRegistered
          /\ entityId \in {w.id, GeneratedId(w.id)}
          /\ RegisterWorkflow(w, entityId)
    \/ \E workflowId \in WorkflowIds :
          \/ PublishWorkflow(workflowId)
          \/ UnpublishWorkflow(workflowId)
          \/ GetWorkflowCall(workflowId)
    \/ \E c \in WfCallIds :
          \/ \E workflowId \in WorkflowIds, ev \in EventTypes :
                ExecuteWorkflow(c, workflowId, ev)
          \/ AfterLookup(c)
          \/ CreateExecution(c)
          \/ BeginSteps(c)
          \/ StepReturns(c, NoResult)
          \/ SaveReturns(c)
          \/ ResumeAfterStep(c)
          \/ PropagateFailure(c)
          \/ CompleteExecution(c)
          \/ ResumeExecuteWorkflow(c)

RegistrySpec == WfInit /\ [][RegistryNext]_vars

\* ------------------------------------------- registry calls in flight

\* The `updates` of an updateWorkflow call (Partial<WorkflowDefinition>):
\* a new name, or new steps.  An empty name is falsy and skipped by line
\* 176; hasSteps tells whether `steps` is passed at all.
NoUpdates == [name |-> "", hasSteps |-> FALSE, steps |-> <<>>]

UpdateInputs ==
    {[NoUpdates EXCEPT !.name = "renamed"],
     [NoUpdates EXCEPT !.hasSteps = TRUE, !.steps = <<WfStep(1, <<>>, 0)>>]}

\* updateWorkflow, lines 175-181: the fields of the loaded entity that the
\* updates overwrite.
ApplyUpdates(entity, updates) ==
    [entity EXCEPT !.name  = IF updates.name # "" THEN updates.name ELSE @,
                   !.steps = IF updates.hasSteps THEN updates.steps ELSE @]

\* The frame of a registry call that has not been made yet: the operation,
\* its position, its arguments, what findOne answered (found, entity), the
\* `affected` count of a delete, and the definition the call returned
\* (NoWorkflowDef for null).
IdleCall ==
    [op |-> "none", pc |-> "idle", workflowId |-> "", updates |-> NoUpdates,
     found |-> FALSE, entity |-> NewEntity(NoWorkflowDef), affected |-> 0,
     result |-> NoWorkflowDef]

\* getWorkflow, lines 57-63: the cache is asked; on a hit the call returns
\* the cached definition, on a miss it awaits the repository.
GetWorkflowStart(r, workflowId) ==
    /\ calls[r].pc = "idle"
    /\ calls' = [calls EXCEPT ![r] =
          IF workflowId \in DOMAIN cache
          THEN [IdleCall EXCEPT !.op = "get", !.workflowId = workflowId,
                                !.pc = "returned", !.result = cache[workflowId]]
          ELSE [IdleCall EXCEPT !.op = "get", !.workflowId = workflowId,
                                !.pc = "getFind"]]
    /\ UNCHANGED <<sagas, repo, cache, execs, clock>>

\* The repository answers the findOne of line 63 from what it holds at that
\* moment; the caller has not resumed yet.
GetWorkflowFind(r) ==
    /\ calls[r].pc = "getFind"
    /\ LET id == calls[r].workflowId
       IN  calls' = [calls EXCEPT ![r] =
              IF id \in DOMAIN repo
              THEN [@ EXCEPT !.pc = "getFound", !.found = TRUE, !.entity = repo[id]]
              ELSE [@ EXCEPT !.pc = "getFound", !.found = FALSE]]
    /\ UNCHANGED <<sagas, repo, cache, execs, clock>>

\* getWorkflow resumes, lines 67-85: null, or the definition is built from
\* the entity that was read, put in the cache and returned.
GetWorkflowResume(r) ==
    /\ calls[r].pc = "getFound"
    /\ LET f        == calls[r]
           workflow == ToDefinition(f.workflowId, f.entity)
       IN  IF ~f.found
           THEN /\ calls' = [calls EXCEPT ![r].pc = "returned",
                                          ![r].result = NoWorkflowDef]
                /\ UNCHANGED cache
           ELSE /\ calls' = [calls EXCEPT ![r].pc = "returned",
                                          ![r].result = workflow]
                /\ cache' = (f.workflowId :> workflow) @@ cache
    /\ UNCHANGED <<sagas, repo, execs, clock>>

\* updateWorkflow, lines 165-169: the call and the answer of the repository
\* to its findOne.
UpdateWorkflowFind(r, workflowId, updates) ==
    /\ calls[r].pc = "idle"
    /\ calls' = [calls EXCEPT ![r] =
          IF workflowId \in DOMAIN repo
          THEN [IdleCall EXCEPT !.op = "update", !.workflowId = workflowId,
                                !.updates = updates, !.pc = "updFound",
                                !.found = TRUE, !.entity = repo[workflowId]]
          ELSE [IdleCall EXCEPT !.op = "update", !.workflowId = workflowId,
                                !.updates = updates, !.pc = "updFound"]]
    /\ UNCHANGED <<sagas, repo, cache, execs, clock>>

\* updateWorkflow resumes, lines 171-184: not found throws; otherwise the
\* loaded entity takes the updates, whatever its status, and is saved (save
\* writes the entity it is given, inserting it when the row is gone).
UpdateWorkflowSave(r) ==
    /\ calls[r].pc = "updFound"
    /\ LET f       == calls[r]
           updated == ApplyUpdates(f.entity, f.updates)
       IN  IF ~f.found
           THEN /\ calls' = [calls EXCEPT ![r].pc = "thrown"]
                /\ UNCHANGED repo
           ELSE /\ calls' = [calls EXCEPT ![r].pc = "updSaved", ![r].entity = updated]
                /\ repo' = (f.workflowId :> updated) @@ repo
    /\ UNCHANGED <<sagas, cache, execs, clock>>

\* updateWorkflow resumes after save, lines 187-190: the cache entry is
\* dropped and getWorkflow is called, which misses the cache and awaits the
\* repository (GetWorkflowFind and GetWorkflowResume take it from there).
UpdateWorkflowResume(r) ==
    /\ calls[r].pc = "updSaved"
    /\ cache' = CacheWithout(calls[r].workflowId)
    /\ calls' = [calls EXCEPT ![r].pc = "getFind", ![r].found = FALSE]
    /\ UNCHANGED <<sagas, repo, execs, clock>>

\* deleteWorkflow, lines 199-201: the call and the repository's delete.
DeleteWorkflowDelete(r, workflowId) ==
    /\ calls[r].pc = "idle"
    /\ calls' = [calls EXCEPT ![r] =
          [IdleCall EXCEPT !.op = "delete", !.workflowId = workflowId,
                           !.pc = "deleted",
                           !.affected = IF workflowId \in DOMAIN repo THEN 1 ELSE 0]]
    /\ repo' = [i \in DOMAIN repo \ {workflowId} |-> repo[i]]
    /\ UNCHANGED <<sagas, cache, execs, clock>>

\* deleteWorkflow resumes, lines 203-210: nothing affected throws; otherwise
\* the cache entry is dropped.
DeleteWorkflowResume(r) ==
    /\ calls[r].pc = "deleted"
    /\ IF calls[r].affected = 0
       THEN /\ calls' = [calls EXCEPT ![r].pc = "thrown"]
            /\ UNCHANGED cache
       ELSE /\ calls' = [calls EXCEPT ![r].pc = "returned"]
            /\ cache' = CacheWithout(calls[r].workflowId)
    /\ UNCHANGED <<sagas, repo, execs, clock>>

\* The registry calls a ConcurrentSpec behaviour holds.
RegistryCallIds == {"r1", "r2"}

ConcurrentInit ==
    /\ sagas = <<>>
    /\ repo = <<>>
    /\ cache = <<>>
    /\ execs = <<>>
    /\ clock = 0
    /\ calls = [r \in RegistryCallIds |-> IdleCall]

\* The registry under concurrent callers: definitions are registered (the
\* store keeping the caller's id), published and unpublished, and two calls
\* of getWorkflow, updateWorkflow or deleteWorkflow run interleaved at
\* their awaits.
ConcurrentNext ==
    \/ \E w \in WorkflowDefs :
          /\ Cardinality(DOMAIN repo) < MaxRegistered
          /\ RegisterWorkflow(w, w.id)
    \/ \E workflowId \in DOMAIN repo :
          \/ PublishWorkflow(workflowId)
          \/ UnpublishWorkflow(workflowId)
    \/ \E r \in RegistryCallIds :
          \/ \E w \in WorkflowDefs :
                \/ GetWorkflowStart(r, w.id)
                \/ \E updates \in UpdateInputs : UpdateWorkflowFind(r, w.id, updates)
                \/ DeleteWorkflowDelete(r, w.id)
          \/ GetWorkflowFind(r)
          \/ GetWorkflowResume(r)
          \/ UpdateWorkflowSave(r)
          \/ UpdateWorkflowResume(r)
          \/ DeleteWorkflowResume(r)

ConcurrentSpec == ConcurrentInit /\ [][ConcurrentNext]_vars

\* ------------------------------------------------ the engine, run on

\* The caller of executeStep resumes with the step's result, as in
\* ResumeAfterStep, with the history of the execution dropped.  The history
\* is what an observer of the engine has seen, not a field of the program;
\* without it two moments of a run at which the program is in the same
\* state are the same state, and a run that never ends is a cycle.
ResumeAfterStepUnrecorded(c) ==
    /\ execs[c].pc = "stepDone"
    /\ execs' = [execs EXCEPT ![c] = AfterStep([execs[c] EXCEPT !.log = <<>>])]
    /\ UNCHANGED <<calls, sagas, repo, cache, clock>>

\* What one executeWorkflow call does next when its step runner and its
\* state store return.
CallProgress(c) ==
    \/ AfterLookup(c)
    \/ CreateExecution(c)
    \/ BeginSteps(c)
    \/ \E r \in RunnerResults(StepInFlight(c)) : StepReturns(c, r)
    \/ SaveReturns(c)
    \/ ResumeAfterStepUnrecorded(c)
    \/ PropagateFailure(c)
    \/ CompleteExecution(c)
    \/ ResumeExecuteWorkflow(c)

\* The engine driven for one call whose step runner and state store always
\* return: definitions are registered, then one is executed.
TerminationNext ==
    \/ \E w \in WorkflowDefs :
          /\ Cardinality(DOMAIN repo) < MaxRegistered
          /\ RegisterWorkflow(w, w.id)
    \/ \E c \in WfCallIds :
          \/ \E w \in WorkflowDefs, ev \in EventTypes : ExecuteWorkflow(c, w.id, ev)
          \/ CallProgress(c)

\* JavaScript's event loop runs the continuation of every await that has
\* been answered, and the step runner and the state store answer every
\* call: a call that can go on does go on (weak fairness of its steps).
TerminationSpec ==
    /\ WfInit
    /\ [][TerminationNext]_vars
    /\ \A c \in WfCallIds : WF_vars(CallProgress(c))

\* ------------------------------------------- two executions at a time

\* The saga definitions two concurrent sagas are started with: two steps,
\* both with a compensation, compensated backward or forward.
PairSagaDefs == {MkSagaDef(2, {1, 2}, 0, 1, st) : st \in {"backward", "forward"}}

\* The definition two concurrent workflow executions run: two steps, the
\* trigger starting step 1.
PairWorkflowDefs ==
    {[id |-> "wfP", name |-> "pair", version |-> "1",
      triggers |-> <<WfTrigger(1, "evA")>>,
      steps |-> <<WfStep(1, <<>>, 0), WfStep(2, <<>>, 0)>>]}

\* The execution ids of a PairSpec behaviour (generateExecutionId gives
\* every startSaga and executeWorkflow call an id of its own).
PairSagaIds == {"sagaA", "sagaB"}

PairCallIds == {"callA", "callB"}

\* One engine with two executions: a saga engine or a workflow engine.
PairInit ==
    /\ \/ sagas = [e \in PairSagaIds |-> IdleSaga] /\ execs = <<>>
       \/ execs = [c \in PairCallIds |-> IdleExec] /\ sagas = <<>>
    /\ repo = <<>>
    /\ cache = <<>>
    /\ clock = 0
    /\ calls = <<>>

\* Two executions of one engine interleaved at their awaits; either may be
\* cancelled at any moment.
PairNext ==
    \/ \E e \in DOMAIN sagas :
          \/ \E def \in PairSagaDefs : StartSaga(e, def)
          \/ SagaStepReturns(e)
          \/ SagaStepThrows(e)
          \/ CompensationReturns(e)
          \/ CompensationThrows(e)
          \/ ResumeHandleStepFailure(e)
          \/ ResumeExecuteSaga(e)
          \/ ResumeStartSaga(e)
          \/ CancelSaga(e)
    \/ /\ DOMAIN execs # {}
       /\ \E w \in PairWorkflowDefs :
             /\ Cardinality(DOMAIN repo) < MaxRegistered
             /\ RegisterWorkflow(w, w.id)
    \/ \E c \in DOMAIN execs :
          \/ \E w \in PairWorkflowDefs : ExecuteWorkflow(c, w.id, "evA")
          \/ AfterLookup(c)
          \/ CreateExecution(c)
          \/ BeginSteps(c)
          \/ \E r \in RunnerResults(StepInFlight(c)) : StepReturns(c, r)
          \/ StepThrows(c)
          \/ SaveReturns(c)
          \/ SaveThrows(c)
          \/ ResumeAfterStep(c)
          \/ PropagateFailure(c)
          \/ CompleteExecution(c)
          \/ ResumeExecuteWorkflow(c)
          \/ CancelExecution(c)

PairSpec == PairInit /\ [][PairNext]_vars

\* ------------------------------------------------ looking executions up

\* The WorkflowExecution object of a call's frame.
ExecutionRecord(x) ==
    [workflowId |-> x.workflowId, status |-> x.status, currentStep |-> x.currentStep,
     context |-> x.context, error |-> x.error, startedAt |-> x.startedAt,
     completedAt |-> x.completedAt, duration |-> x.duration]

\* Map.get of an id the ledger does not hold: undefined.
Undefined == [found |-> FALSE, execution |-> ExecutionRecord(IdleExec)]

\* getExecution, lines 250-252: what the ledger holds for the id.
GetExecution(executionId) ==
    IF executionId \in DOMAIN execs /\ execs[executionId].inLedger
    THEN [found |-> TRUE, execution |-> ExecutionRecord(execs[executionId])]
    ELSE Undefined

\* The frame of a caller of getExecution that has not called yet.
NoQuery == [op |-> "none", executionId |-> "", result |-> Undefined]

\* getExecution that takes the record out of the ledger as it returns it.
GetExecutionTakes(q, executionId) ==
    /\ calls' = [calls EXCEPT ![q] = [op |-> "getExecution", executionId |-> executionId,
                                      result |-> GetExecution(executionId)]]
    /\ execs' = [c \in DOMAIN execs |->
                    IF c = executionId THEN [execs[c] EXCEPT !.inLedger = FALSE]
                    ELSE execs[c]]
    /\ UNCHANGED <<sagas, repo, cache, clock>>

\* A caller calls getExecution (it is synchronous) and keeps what it got.
GetExecutionCall(q, executionId) ==
    /\ calls' = [calls EXCEPT ![q] = [op |-> "getExecution", executionId |-> executionId,
                                      result |-> GetExecution(executionId)]]
    /\ UNCHANGED <<sagas, repo, cache, execs, clock>>

\* The caller of getExecution of a QuerySpec behaviour, who may call again
\* and again, and the ids asked for.
QueryIds == {"q1"}

AskedIds == WfCallIds \cup {"unknown"}

QueryInit ==
    /\ sagas = <<>>
    /\ repo = <<>>
    /\ cache = <<>>
    /\ execs = [c \in WfCallIds |-> IdleExec]
    /\ clock = 0
    /\ calls = [q \in QueryIds |-> NoQuery]

\* The engine of WfSpec with a caller that looks executions up at any moment.
QueryNext ==
    \/ WfNext
    \/ \E q \in QueryIds, executionId \in AskedIds : GetExecutionCall(q, executionId)

QuerySpec == QueryInit /\ [][QueryNext]_vars

\* The wall clock advances.  The engine only ever reads the clock into
\* startedAt and completedAt (lines 52, 94, 103, 258) and subtracts the two,
\* so time is let pass only while an execution record is live.
Tick ==
    /\ clock < MaxClock
    /\ \E c \in DOMAIN execs : execs[c].inLedger /\ ~WfEnded(execs[c])
    /\ clock' = clock + 1
    /\ UNCHANGED <<calls, sagas, repo, cache, execs>>

\* The workflow engine of WfSpec with time passing between its steps.
TimedNext == WfNext \/ Tick

TimedSpec == WfInit /\ [][TimedNext]_vars

\* Either engine, each driven as in its own specification: a behaviour
\* starts as a saga engine or as a workflow engine.
EngineInit == SagaInit \/ WfInit

EngineNext ==
    \/ DOMAIN sagas # {} /\ SagaNext
    \/ DOMAIN execs # {} /\ WfNext

EngineSpec == EngineInit /\ [][EngineNext]_vars

\* The step runner returns and a subscriber of 'saga.step.completed' raises:
\* EventEmitter2.emit calls its listeners synchronously, so the error leaves
\* emit (line 96) inside the try of the step loop, after lines 92-93 have
\* run, and lands in the inner catch like a failure of the step.
SagaStepReturnsSinkThrows(e) ==
    /\ sagas[e].pc = "execStep"
    /\ LET s    == sagas[e]
           step == s.def.steps[s.currentStep + 1]
           upd  == [s EXCEPT !.data = @ \cup {step.id},
                             !.completedSteps = Append(@, step.id)]
       IN  sagas' = [sagas EXCEPT ![e] =
                        SagaStepFailed(SagaEmit(upd, "saga.step.completed"),
                                       "SubscriberFailed")]
    /\ UNCHANGED <<calls, repo, cache, execs, clock>>

\* executeWorkflow, lines 47-59 and 65-68: the record is created and stored,
\* a subscriber of 'workflow.execution.started' raises, and the error leaves
\* emit into executeWorkflow's catch, which rethrows it.
CreateExecutionSinkThrows(c) ==
    /\ execs[c].pc = "validated"
    /\ execs[c].valid
    /\ LET x == execs[c]
       IN  execs' = [execs EXCEPT ![c] =
              [WfEmit([x EXCEPT !.status = "pending", !.startedAt = clock,
                                !.inLedger = TRUE],
                      "workflow.execution.started")
                  EXCEPT !.pc = "thrown", !.failure = "SubscriberFailed",
                         !.raised = "SubscriberFailed"]]
    /\ UNCHANGED <<calls, sagas, repo, cache, clock>>

\* Either engine with a notification sink whose subscribers may raise.
SinkNext ==
    \/ EngineNext
    \/ DOMAIN sagas # {} /\ \E e \in SagaIds : SagaStepReturnsSinkThrows(e)
    \/ DOMAIN execs # {} /\ \E c \in WfCallIds : CreateExecutionSinkThrows(c)

SinkSpec == EngineInit /\ [][SinkNext]_vars

(***************************************************************************)
(*                     CLAIMS ABOUT THE SAGA ENGINE                        *)
(***************************************************************************)
IsPrefixOf(a, b) == Len(a) <= Len(b) /\ SubSeq(b, 1, Len(a)) = a

\* The ids of the steps before (1-based) index k that declare a
\* compensation, last first.
BackwardExpected(def, k) ==
    LET before == SubSeq(def.steps, 1, k - 1)
        comp   == SelectSeq(before, LAMBDA st : st.compensation)
    IN  Reverse([i \in 1..Len(comp) |-> comp[i].id])

\* The ids of the steps after index k that declare a compensation, in
\* definition order.
ForwardExpected(def, k) ==
    LET after == SubSeq(def.steps, k + 1, Len(def.steps))
        comp  == SelectSeq(after, LAMBDA st : st.compensation)
    IN  [i \in 1..Len(comp) |-> comp[i].id]

\* A step of the saga has failed (its failure is recorded in failedSteps).
SagaFailedAt(s) == s.status # "none" /\ Len(s.failedSteps) > 0

\* C3: when a saga step fails and a compensation action then raises, the
\* saga ends with status compensation_failed, a compensation_failed
\* notification has been emitted, and startSaga throws the compensation error.
C3_CompensationFailureSurfaces ==
    \A e \in DOMAIN sagas :
        (SagaEnded(sagas[e]) /\ sagas[e].compRaised) =>
            /\ sagas[e].status = "compensation_failed"
            /\ HasEmitted(sagas[e].log, "saga.compensation_failed")
            /\ sagas[e].pc = "thrown"
            /\ sagas[e].raised = "CompensationFailed"

\* C4: with the backward strategy, when step k fails after steps 1..k-1
\* completed, the compensations handed to the compensation runner are, in
\* order, those of the completed steps that declare one, last completed
\* first, each once (at every moment a prefix of that list, and the whole
\* list once startSaga has ended with no compensation raising); none is the
\* failed step's or a later step's; and the saga then ends compensated.
C4_BackwardCompensation ==
    \A e \in DOMAIN sagas :
        LET s        == sagas[e]
            k        == s.currentStep + 1
            expected == BackwardExpected(s.def, k)
            invoked  == IdsOf(s.log, "comp")
        IN  (s.def.strategy = "backward" /\ SagaFailedAt(s)) =>
                /\ s.completedSteps = [i \in 1..(k - 1) |-> s.def.steps[i].id]
                /\ IsPrefixOf(invoked, expected)
                /\ \A i \in 1..Len(invoked) : FindSagaStep(s.def.steps, invoked[i]) < k
                /\ (SagaEnded(s) /\ ~s.compRaised) =>
                        /\ invoked = expected
                        /\ s.status = "compensated"

\* Witness of C4: a three-step backward saga whose third step failed after
\* the first two completed, both compensated in reverse order.
C4_Witness ==
    \E e \in DOMAIN sagas :
        /\ SagaEnded(sagas[e])
        /\ sagas[e].def.strategy = "backward"
        /\ sagas[e].completedSteps = <<1, 2>>
        /\ Len(sagas[e].failedSteps) = 1
        /\ sagas[e].failedSteps[1].stepId = 3
        /\ IdsOf(sagas[e].log, "comp") = <<2, 1>>
        /\ sagas[e].status = "compensated"

\* C5: with the mixed strategy, a step failure makes the engine invoke the
\* compensations of the completed steps in reverse order and then those of
\* the steps not yet executed in forward order, before the saga is marked
\* compensated.
C5_MixedCompensation ==
    \A e \in DOMAIN sagas :
        LET s == sagas[e]
            k == s.currentStep + 1
        IN  (s.def.strategy = "mixed" /\ SagaFailedAt(s) /\ s.status = "compensated") =>
                IdsOf(s.log, "comp") =
                    BackwardExpected(s.def, k) \o ForwardExpected(s.def, k)

\* The status changes the saga state machine allows.
SagaTransitions ==
    {<<"running", "completed">>, <<"running", "failed">>,
     <<"failed", "compensated">>, <<"failed", "compensation_failed">>,
     <<"running", "cancelled">>}

\* C6: every change of a saga execution's status is one of running ->
\* completed, running -> failed, failed -> compensated, failed ->
\* compensation_failed, running -> cancelled.
C6_SagaStateMachine ==
    [][\A e \in DOMAIN sagas :
          (sagas[e].status # "none" /\ sagas'[e].status # sagas[e].status) =>
              <<sagas[e].status, sagas'[e].status>> \in SagaTransitions]_vars

\* C7: once cancelSaga has cancelled a running saga, no further step is
\* handed to the step runner, and when startSaga has ended the status is
\* still cancelled.
C7_CancelStopsSaga ==
    \A e \in DOMAIN sagas :
        LET log == sagas[e].log
        IN  /\ \A i \in 1..Len(log) : \A j \in (i + 1)..Len(log) :
                   log[i] = Emitted("saga.cancelled") => log[j].k # "step"
            /\ (SagaEnded(sagas[e]) /\ HasEmitted(log, "saga.cancelled")) =>
                   sagas[e].status = "cancelled"

(***************************************************************************)
(*                   CLAIMS ABOUT THE WORKFLOW ENGINE                      *)
(***************************************************************************)
WfTerminal == {"completed", "failed", "cancelled"}

\* The status changes one uninterrupted stretch of executeWorkflow may make
\* under pending -> running -> {completed, failed, cancelled}: the record is
\* created pending; pending becomes running, or failed when lines 77-83
\* find no start step in the same stretch; running becomes terminal.
WfTransitionAllowed(old, new) ==
    \/ old = "none" /\ new = "pending"
    \/ old = "pending" /\ new \in {"running", "failed"}
    \/ old = "running" /\ new \in WfTerminal

\* C1: under every interleaving of executeWorkflow with cancelExecution the
\* status of an execution only moves pending -> running -> one of completed,
\* failed, cancelled, and a completed, failed or cancelled status never
\* changes again.
C1_WorkflowStateMachine ==
    [][\A c \in DOMAIN execs :
          execs'[c].status # execs[c].status =>
              WfTransitionAllowed(execs[c].status, execs'[c].status)]_vars

\* C2: once cancelExecution has cancelled a running execution, no further
\* step of that execution is handed to the step runner.
C2_CancelStopsWorkflow ==
    \A c \in DOMAIN execs :
        LET log == execs[c].log
        IN  \A i \in 1..Len(log) : \A j \in (i + 1)..Len(log) :
                log[i] = Emitted("workflow.execution.cancelled") => log[j].k # "step"

\* The `next` edges of a definition's step graph.
NextEdges(def) ==
    UNION {{<<def.steps[i].id, def.steps[i].next[j]>> : j \in 1..Len(def.steps[i].next)} :
              i \in 1..Len(def.steps)}

\* The step ids reachable from the set S over `next` edges, S included.
RECURSIVE ReachableOverNext(_, _)
ReachableOverNext(def, S) ==
    LET more == S \cup {e[2] : e \in {d \in NextEdges(def) : d[1] \in S}}
    IN  IF more = S THEN S ELSE ReachableOverNext(def, more)

\* The step graph has a cycle: some edge a -> b with a reachable from b.
HasNextCycle(def) ==
    \E e \in NextEdges(def) : e[1] \in ReachableOverNext(def, {e[2]})

\* C8: the validator's cycle check is true exactly for the step graphs with
\* a cycle over `next` edges, so that a definition with such a cycle is
\* reported invalid and executeWorkflow creates no execution for it.
C8_CycleCheck ==
    \A c \in DOMAIN execs :
        LET x == execs[c]
        IN  (x.found /\ x.pc \notin {"idle", "gotDef", "validated"}) =>
                /\ HasCircularDependencies(x.def) = HasNextCycle(x.def)
                /\ HasNextCycle(x.def) =>
                      /\ ~ValidateWorkflow(x.def).isValid
                      /\ x.status = "none"

\* An executeWorkflow call whose lookup came back absent or whose
\* definition the validator reports invalid.
WfRejected(x) ==
    x.pc # "idle" /\ (~x.found \/ ValidationErrors(x.def) # {})

\* C9: when the definition lookup returns absent, or validation reports the
\* definition invalid, executeWorkflow puts nothing in the executions
\* ledger, emits no notification, and fails with NotFound, respectively
\* ValidationFailed.
C9_NoRecordOnRejectedCall ==
    \A c \in DOMAIN execs :
        LET x == execs[c]
        IN  WfRejected(x) =>
                /\ ~x.inLedger
                /\ x.status = "none"
                /\ x.log = <<>>
                /\ x.pc \in {"gotDef", "validated", "thrown"}
                /\ x.pc = "thrown" =>
                      x.raised = IF x.found THEN "ValidationFailed" ELSE "NotFound"

\* Witness of C9: a call for a registered definition that validation
\* rejected has thrown ValidationFailed.
C9_Witness ==
    \E c \in DOMAIN execs :
        /\ execs[c].pc = "thrown"
        /\ execs[c].found
        /\ ValidationErrors(execs[c].def) # {}
        /\ execs[c].raised = "ValidationFailed"

\* C10: executeWorkflow for an id whose stored definition is draft or
\* inactive, after any sequence of registerWorkflow, publishWorkflow,
\* unpublishWorkflow and getWorkflow, hands no step to the step runner and
\* fails with NotFound.
C10_OnlyPublishedRuns ==
    \A c \in DOMAIN execs :
        LET x == execs[c]
        IN  (x.pc # "idle" /\ x.stored = "draft") =>
                /\ RunnerCalls(x) = 0
                /\ x.status = "none"
                /\ WfEnded(x) => (x.pc = "thrown" /\ x.raised = "NotFound")

(***************************************************************************)
(*            CLAIMS ABOUT TIMING, CANCELLATION AND FAILURES               *)
(***************************************************************************)
\* C11: every execution record in a terminal status has its duration set,
\* equal to completedAt minus startedAt, and not negative.
C11_DurationOnTerminal ==
    \A c \in DOMAIN execs :
        LET x == execs[c]
        IN  (x.inLedger /\ x.status \in WfTerminal) =>
                /\ x.duration >= 0
                /\ x.duration = x.completedAt - x.startedAt

SagaTerminal ==
    {"completed", "failed", "compensated", "compensation_failed", "cancelled"}

\* C12: a cancelExecution or cancelSaga step taken for an execution that is
\* terminal, or that the ledger does not hold, changes nothing: no field of
\* any record, no notification in any history.
C12_CancelOnTerminalIsNoOp ==
    [][/\ \A c \in DOMAIN execs :
            (/\ ~execs[c].inLedger \/ execs[c].status \in WfTerminal
             /\ CancelExecution(c)) => UNCHANGED vars
       /\ \A e \in DOMAIN sagas :
            (/\ ~sagas[e].inLedger \/ sagas[e].status \in SagaTerminal
             /\ CancelSaga(e)) => UNCHANGED vars]_vars

\* Witness of C12: an execution that was cancelled once is in the ledger in
\* a terminal status, where every further cancelExecution is such a step.
C12_Witness ==
    \E c \in DOMAIN execs :
        /\ execs[c].inLedger
        /\ execs[c].status \in WfTerminal
        /\ HasEmitted(execs[c].log, "workflow.execution.cancelled")

\* The step calls of one step among the first n entries of a history.
CallsBefore(log, n, stepId) ==
    Cardinality({j \in 1..n : log[j].k = "step" /\ log[j].id = stepId})

\* C13: when the failure of a step that carries a retryPolicy reaches the
\* error-handler-or-propagate logic, the step has been handed to the step
\* runner maxAttempts times.
C13_RetryBeforeFailureHandling ==
    \A c \in DOMAIN execs :
        LET x   == execs[c]
            log == x.log
        IN  \A i \in 1..Len(log) :
                log[i].k = "threw" =>
                    LET step == x.def.steps[FindWorkflowStep(x.def.steps, log[i].id)]
                    IN  step.retryPolicy > 0 =>
                            CallsBefore(log, i, step.id) >= step.retryPolicy

\* C14: when a step's failure is caught, a step that declares an
\* errorHandler has that handler step handed to the step runner next, with
\* the error as its input; for a step that declares none, no step is handed
\* to the step runner afterwards.
C14_ErrorHandlerOrPropagate ==
    \A c \in DOMAIN execs :
        LET x   == execs[c]
            log == x.log
        IN  \A i \in 1..Len(log) :
                log[i].k = "threw" =>
                    LET step == x.def.steps[FindWorkflowStep(x.def.steps, log[i].id)]
                    IN  IF step.errorHandler # 0
                        THEN /\ i < Len(log)
                             /\ log[i + 1] = StepCallWith(step.errorHandler, "error")
                        ELSE \A j \in (i + 1)..Len(log) : log[j].k # "step"

\* C15: once a failure has left the walk, the record has status failed, the
\* failure's message as its error, completedAt and duration set (duration =
\* completedAt - startedAt), and exactly one failed notification in its
\* history; and executeWorkflow, once it has ended, has thrown that failure.
C15_PropagatedFailure ==
    \A c \in DOMAIN execs :
        LET x == execs[c]
        IN  /\ (x.inLedger /\ x.pc \in {"awaitSteps", "thrown"} /\ x.failure # "none") =>
                /\ x.status = "failed"
                /\ x.error = x.failure
                /\ x.completedAt >= x.startedAt
                /\ x.duration = x.completedAt - x.startedAt
                /\ CountEmitted(x.log, "workflow.execution.failed") = 1
            /\ (x.inLedger /\ WfEnded(x) /\ x.failure # "none") =>
                /\ x.pc = "thrown"
                /\ x.raised = x.failure

\* Witness of C15: a step failure left the walk one clock reading after the
\* record was created, and executeWorkflow has thrown it.
C15_Witness ==
    \E c \in DOMAIN execs :
        /\ execs[c].inLedger
        /\ execs[c].pc = "thrown"
        /\ execs[c].raised = "StepExecutionFailed"
        /\ execs[c].status = "failed"
        /\ execs[c].duration = 1

\* C16: a call for the linear workflow step1 -> step2 -> step3 that returns
\* (no step failed, nobody cancelled) has handed step 1, step 2 and step 3
\* to the step runner, in that order, and ends completed with currentStep =
\* step 3.
C16_LinearWorkflowRunsInOrder ==
    \A c \in DOMAIN execs :
        LET x == execs[c]
        IN  (/\ x.workflowId = "wfA"
             /\ x.pc = "returned"
             /\ ~HasEmitted(x.log, "workflow.execution.cancelled")) =>
                /\ IdsOf(x.log, "step") = <<1, 2, 3>>
                /\ x.status = "completed"
                /\ x.currentStep = 3

\* The part of C14 the engine does keep: a caught failure of a step whose
\* errorHandler names a step of the definition is followed at once by that
\* handler's call with the error as input, and after a caught failure of a
\* step without errorHandler no step is called.
ExistingHandlersObeyed ==
    \A c \in DOMAIN execs :
        LET x   == execs[c]
            log == x.log
        IN  \A i \in 1..Len(log) :
                log[i].k = "threw" =>
                    LET step == x.def.steps[FindWorkflowStep(x.def.steps, log[i].id)]
                    IN  IF FindWorkflowStep(x.def.steps, step.errorHandler) # 0
                        THEN /\ i < Len(log)
                             /\ log[i + 1] = StepCallWith(step.errorHandler, "error")
                        ELSE step.errorHandler = 0 => \A j \in (i + 1)..Len(log) : log[j].k # "step"

(***************************************************************************)
(*                      CLAIMS ABOUT DEPENDENCIES                          *)
(***************************************************************************)
\* The steps an execution has handed to the step runner, and those of them
\* that have not failed.
StepsRun(x) == SeqToSet(IdsOf(x.log, "step"))

StepsCompleted(x) == StepsRun(x) \ SeqToSet(IdsOf(x.log, "threw"))

\* The steps whose every dependency has completed and that have not run.
ReadySet(x) ==
    {st.id : st \in {s \in SeqToSet(x.def.steps) :
                        /\ s.hasDeps => s.dependencies \subseteq StepsCompleted(x)
                        /\ s.id \notin StepsRun(x)}}

\* C17: when processNextSteps seeds its queue (the last start step has
\* returned), the ready set it gets holds exactly the steps whose every
\* dependency has completed and that have not run in this execution.
C17_ReadySetAtSeeding ==
    \A c \in DOMAIN execs :
        LET x == execs[c]
        IN  (x.pc = "stepDone" /\ x.phase = "start" /\ x.startQueue = <<>>) =>
                SeqToSet(FindPendingSteps(x)) = ReadySet(x)

\* C18: every step handed to the step runner, be it a start step, a step of
\* the initial queue or a pushed successor, has all its declared
\* dependencies among the steps run before it in that execution.
C18_NoStepBeforeItsDependencies ==
    \A c \in DOMAIN execs :
        LET x   == execs[c]
            log == x.log
        IN  \A i \in 1..Len(log) :
                log[i].k = "step" =>
                    LET step == x.def.steps[FindWorkflowStep(x.def.steps, log[i].id)]
                    IN  step.hasDeps =>
                            step.dependencies \subseteq
                                {log[j].id : j \in {n \in 1..(i - 1) : log[n].k = "step"}}

\* The ids of the first n steps of a saga definition.
FirstSteps(def, n) == [i \in 1..n |-> def.steps[i].id]

\* C19: a saga step that declares dependencies is handed to the step runner
\* only if each of them is in completedSteps (the steps run and completed
\* before it); a step reached with a dependency missing is not handed to
\* the runner, is recorded in failedSteps, and is compensated for like any
\* failed step (backward: the completed steps' compensations, last first;
\* forward: those of the steps after it).
C19_SagaDependencies ==
    \A e \in DOMAIN sagas :
        LET s   == sagas[e]
            log == s.log
            k   == s.currentStep + 1
        IN  /\ \A i \in 1..Len(log) :
                    log[i].k = "step" =>
                        LET step == s.def.steps[FindSagaStep(s.def.steps, log[i].id)]
                        IN  step.hasDeps =>
                                step.dependencies \subseteq
                                    ({log[j].id : j \in {n \in 1..(i - 1) : log[n].k = "step"}}
                                        \cap SeqToSet(s.completedSteps))
            /\ (/\ s.status # "none"
                /\ s.def.steps[k].hasDeps
                /\ ~(s.def.steps[k].dependencies \subseteq SeqToSet(s.completedSteps))) =>
                    /\ IdsOf(log, "step") = FirstSteps(s.def, k - 1)
                    /\ s.failedSteps = <<[stepId |-> s.def.steps[k].id,
                                          error |-> "DependencyNotMet"]>>
                    /\ s.def.strategy = "backward" =>
                            /\ IsPrefixOf(IdsOf(log, "comp"), BackwardExpected(s.def, k))
                            /\ (SagaEnded(s) /\ ~s.compRaised) =>
                                    IdsOf(log, "comp") = BackwardExpected(s.def, k)
                    /\ s.def.strategy = "forward" =>
                            /\ IsPrefixOf(IdsOf(log, "comp"), ForwardExpected(s.def, k))
                            /\ (SagaEnded(s) /\ ~s.compRaised) =>
                                    IdsOf(log, "comp") = ForwardExpected(s.def, k)

\* Witness of C19: step 2 depends on a step that has not completed when its
\* turn comes; it was not run, is recorded as failed, and step 1 was
\* compensated.
C19_Witness ==
    \E e \in DOMAIN sagas :
        /\ SagaEnded(sagas[e])
        /\ sagas[e].def.strategy = "backward"
        /\ sagas[e].failedSteps = <<[stepId |-> 2, error |-> "DependencyNotMet"]>>
        /\ IdsOf(sagas[e].log, "step") = <<1>>
        /\ IdsOf(sagas[e].log, "comp") = <<1>>

\* C20 as stated: once a saga step has failed, the steps handed to the step
\* runner are exactly the steps before the failed one plus the failed one.
C20_ExecutedStepsOnFailure ==
    \A e \in DOMAIN sagas :
        LET s == sagas[e]
            k == s.currentStep + 1
        IN  SagaFailedAt(s) =>
                SeqToSet(IdsOf(s.log, "step")) = SeqToSet(FirstSteps(s.def, k))

\* C20, amended: once a saga step has failed, no later step is handed to
\* the step runner; the steps handed to it are, in definition order, the
\* steps before the failed one, plus the failed one unless it failed its
\* dependency check (it was then never handed over).
C20_NoStepAfterFailure ==
    \A e \in DOMAIN sagas :
        LET s == sagas[e]
            k == s.currentStep + 1
        IN  SagaFailedAt(s) =>
                /\ Len(s.failedSteps) = 1
                /\ s.failedSteps[1].stepId = s.def.steps[k].id
                /\ IdsOf(s.log, "step") =
                        FirstSteps(s.def, IF s.failedSteps[1].error = "DependencyNotMet"
                                          THEN k - 1 ELSE k)

\* Witness of C20: a three-step saga whose second step threw has ended
\* with steps 1 and 2 run and step 3 never handed to the runner.
C20_Witness ==
    \E e \in DOMAIN sagas :
        /\ SagaEnded(sagas[e])
        /\ Len(sagas[e].def.steps) = 3
        /\ sagas[e].failedSteps = <<[stepId |-> 2, error |-> "StepExecutionFailed"]>>
        /\ IdsOf(sagas[e].log, "step") = <<1, 2>>

(***************************************************************************)
(*            CLAIMS ABOUT THE SAGA'S ORDER AND ITS LEDGER                 *)
(***************************************************************************)
\* C21: at every point of a saga execution completedSteps is a prefix of
\* the definition's list of step ids, and so is the list of steps handed to
\* the step runner: dependencies gate a step, they never reorder the steps.
C21_CompletedStepsInDefinitionOrder ==
    \A e \in DOMAIN sagas :
        LET s   == sagas[e]
            ids == FirstSteps(s.def, Len(s.def.steps))
        IN  /\ IsPrefixOf(s.completedSteps, ids)
            /\ IsPrefixOf(IdsOf(s.log, "step"), ids)

\* Witness of C21: a three-step saga whose last step depends on an earlier
\* one has completed all three in definition order.
C21_Witness ==
    \E e \in DOMAIN sagas :
        /\ sagas[e].completedSteps = <<1, 2, 3>>
        /\ sagas[e].def.steps[3].hasDeps
        /\ sagas[e].status = "completed"

\* C22: once a compensation action has raised, no compensation action is
\* invoked afterwards for that saga, and startSaga, once it has ended, has
\* thrown the compensation's error.
C22_CompensationFailureAborts ==
    \A e \in DOMAIN sagas :
        LET s   == sagas[e]
            log == s.log
        IN  /\ \A i \in 1..Len(log) :
                  log[i].k = "compThrew" =>
                      \A j \in (i + 1)..Len(log) : log[j].k # "comp"
            /\ (SagaEnded(s) /\ s.compRaised) =>
                  /\ s.pc = "thrown"
                  /\ s.raised = "CompensationFailed"

\* Witness of C22: two completed steps declare a compensation, the first
\* one walked (step 2's) raised, step 1's was never invoked, startSaga threw.
C22_Witness ==
    \E e \in DOMAIN sagas :
        /\ sagas[e].pc = "thrown"
        /\ sagas[e].def.strategy = "backward"
        /\ sagas[e].completedSteps = <<1, 2>>
        /\ sagas[e].def.steps[1].compensation
        /\ IdsOf(sagas[e].log, "comp") = <<2>>
        /\ IdsOf(sagas[e].log, "compThrew") = <<2>>

\* C23: with the forward strategy, when the step at index k fails, the
\* compensations handed to the compensation runner are, in definition
\* order, those of the steps after index k that declare one, each once (at
\* every moment a prefix of that list, and the whole list once startSaga
\* has ended with no compensation raising); none is a completed step's or
\* the failed step's.
C23_ForwardCompensation ==
    \A e \in DOMAIN sagas :
        LET s        == sagas[e]
            k        == s.currentStep + 1
            expected == ForwardExpected(s.def, k)
            invoked  == IdsOf(s.log, "comp")
        IN  (s.def.strategy = "forward" /\ SagaFailedAt(s)) =>
                /\ IsPrefixOf(invoked, expected)
                /\ \A i \in 1..Len(invoked) : FindSagaStep(s.def.steps, invoked[i]) > k
                /\ (SagaEnded(s) /\ ~s.compRaised) => invoked = expected

\* Witness of C23: a three-step forward saga whose first step failed; the
\* compensations of steps 2 and 3 were invoked in that order.
C23_Witness ==
    \E e \in DOMAIN sagas :
        /\ SagaEnded(sagas[e])
        /\ sagas[e].def.strategy = "forward"
        /\ Len(sagas[e].failedSteps) = 1
        /\ sagas[e].failedSteps[1].stepId = 1
        /\ IdsOf(sagas[e].log, "comp") = <<2, 3>>

\* C24: no record the live ledger holds has a terminal status (completed,
\* compensated, compensation_failed, cancelled), and once startSaga has
\* returned or thrown the ledger does not hold the record.
C24_NoTerminalRecordInLedger ==
    \A e \in DOMAIN sagas :
        /\ sagas[e].inLedger =>
              sagas[e].status \notin
                  {"completed", "compensated", "compensation_failed", "cancelled"}
        /\ SagaEnded(sagas[e]) => ~sagas[e].inLedger

\* C29: completedSteps never holds the same step id twice (every saga
\* definition explored has unique step ids).
C29_CompletedStepsUnique ==
    \A e \in DOMAIN sagas :
        LET done == sagas[e].completedSteps
        IN  \A i, j \in 1..Len(done) : i # j => done[i] # done[j]

\* Witness of C29: three steps have completed, the saga goes on.
C29_Witness ==
    \E e \in DOMAIN sagas :
        /\ Len(sagas[e].completedSteps) = 3
        /\ Len(sagas[e].def.steps) = 3
        /\ SagaEnded(sagas[e])

\* C30: failedSteps has an entry for every failure of the execution: when a
\* compensation action raised after the step failure, it has one entry for
\* the step and one for the compensation.
C30_FailedStepsRecordsEveryFailure ==
    \A e \in DOMAIN sagas :
        sagas[e].compRaised => Len(sagas[e].failedSteps) >= 2

(***************************************************************************)
(*          CLAIMS ABOUT THE NOTIFICATION SINK AND VALIDATION              *)
(***************************************************************************)
\* C25: a step in which a subscriber of a lifecycle notification raises
\* leaves the saga's status and failedSteps as they were and starts no
\* compensation, and does not make executeWorkflow throw.
C25_SinkFailureChangesNothing ==
    [][/\ \A e \in DOMAIN sagas :
            SagaStepReturnsSinkThrows(e) =>
                /\ sagas'[e].status = sagas[e].status
                /\ sagas'[e].failedSteps = sagas[e].failedSteps
                /\ IdsOf(sagas'[e].log, "comp") = IdsOf(sagas[e].log, "comp")
       /\ \A c \in DOMAIN execs :
            CreateExecutionSinkThrows(c) => execs'[c].pc # "thrown"]_vars

\* C26: once executeWorkflow has returned or thrown, the record it created
\* has a terminal status.
C26_TerminalWhenCallEnds ==
    \A c \in DOMAIN execs :
        (WfEnded(execs[c]) /\ execs[c].inLedger) => execs[c].status \in WfTerminal

\* The ids of the steps that no other step names in next, dependencies or
\* errorHandler and that no trigger starts.
UnreferencedSteps(workflow) ==
    LET n == Len(workflow.steps)
        referencedBy(j) ==
            SeqToSet(workflow.steps[j].next) \cup workflow.steps[j].dependencies
                \cup {workflow.steps[j].errorHandler}
    IN  {workflow.steps[i].id : i \in
            {i \in 1..n :
                /\ \A j \in (1..n) \ {i} : workflow.steps[i].id \notin referencedBy(j)
                /\ \A k \in 1..Len(workflow.triggers) :
                      workflow.triggers[k].type # workflow.steps[i].id}}

\* A call whose definition has been through validateWorkflow.
WfValidated(x) == x.found /\ x.pc \notin {"idle", "gotDef"}

\* C27: the orphan set validation computes is exactly the set of steps that
\* no other step's next, dependencies or errorHandler names and no trigger
\* starts.
C27_OrphanSet ==
    \A c \in DOMAIN execs :
        WfValidated(execs[c]) =>
            ValidateWorkflow(execs[c].def).orphaned = UnreferencedSteps(execs[c].def)

\* C28: validateWorkflow reports a definition invalid when two of its steps
\* share an id, or when a next or errorHandler entry names no step of it.
C28_DanglingReferencesInvalid ==
    \A c \in DOMAIN execs :
        LET x     == execs[c]
            steps == x.def.steps
            ids   == {steps[i].id : i \in 1..Len(steps)}
        IN  (/\ WfValidated(x)
             /\ \/ \E i, j \in 1..Len(steps) : i # j /\ steps[i].id = steps[j].id
                \/ \E i \in 1..Len(steps) :
                      \/ ~(SeqToSet(steps[i].next) \subseteq ids)
                      \/ steps[i].errorHandler # 0 /\ steps[i].errorHandler \notin ids)
                => ~x.valid
(***************************************************************************)
(*                 CLAIMS ABOUT THE EVENT AND THE TRIGGERS                 *)
(***************************************************************************)
\* No trigger of the call's definition has the eventType of the event.
NoTriggerMatches(x) ==
    \A i \in 1..Len(x.def.triggers) : x.def.triggers[i].eventType # x.eventType

\* C35: when no trigger of the definition has the eventType of the incoming
\* event, no step is passed to the step runner, the execution ends failed
\* with the no-matching-trigger error, and executeWorkflow raises that error.
C35_NoMatchingTrigger ==
    \A c \in DOMAIN execs :
        LET x == execs[c]
        IN  (x.inLedger /\ NoTriggerMatches(x)) =>
               /\ IdsOf(x.log, "step") = <<>>
               /\ x.status \in {"pending", "failed"}
               /\ x.status = "failed" =>
                     /\ x.error = "NoMatchingTrigger"
                     /\ HasEmitted(x.log, "workflow.execution.failed")
               /\ WfEnded(x) =>
                     /\ x.status = "failed"
                     /\ x.pc = "thrown"
                     /\ x.raised = "NoMatchingTrigger"

\* A valid definition was run for an event none of its triggers names, and
\* the call has ended.
C35_Witness ==
    \E c \in DOMAIN execs :
        /\ execs[c].inLedger
        /\ NoTriggerMatches(execs[c])
        /\ execs[c].pc = "thrown"
        /\ execs[c].raised = "NoMatchingTrigger"

(***************************************************************************)
(*                  CLAIMS ABOUT COMPLETION AND FAILURES                   *)
(***************************************************************************)
\* The failure at entry i of a history was followed at once by the call of
\* an error-handler step, which got the error as its input.
HandlerRanFor(log, i) ==
    /\ i < Len(log)
    /\ log[i + 1].k = "step"
    /\ log[i + 1].input = "error"

\* C37: a workflow execution has status completed only if every step
\* failure in it was handled by an error-handler step that was executed; a
\* failure whose declared errorHandler names no step does not end completed.
C37_CompletedOnlyIfFailuresHandled ==
    \A c \in DOMAIN execs :
        LET x == execs[c]
        IN  x.status = "completed" =>
               \A i \in 1..Len(x.log) :
                   x.log[i].k = "threw" => HandlerRanFor(x.log, i)

MutationInFlight(id) ==
    \E r \in DOMAIN calls :
        /\ calls[r].workflowId = id
        /\ calls[r].op \in {"update", "delete"}
        /\ calls[r].pc \notin {"idle", "returned", "thrown"}

\* An updateWorkflow or deleteWorkflow call for this id has returned.
MutationCompleted(id) ==
    \E r \in DOMAIN calls :
        /\ calls[r].workflowId = id
        /\ calls[r].op \in {"update", "delete"}
        /\ calls[r].pc = "returned"

\* C38: the cache never serves a stale definition: once an update or delete
\* for an id has completed (and none is under way), what getWorkflow would
\* answer from the cache for that id is the stored definition, and nothing
\* after a delete, whatever getWorkflow calls were in flight meanwhile.
C38_CacheNeverStale ==
    \A id \in WorkflowIds :
        (MutationCompleted(id) /\ ~MutationInFlight(id)) =>
           (id \in DOMAIN cache =>
               /\ id \in DOMAIN repo
               /\ cache[id] = ToDefinition(id, repo[id]))

(***************************************************************************)
(*                        CLAIMS ABOUT TERMINATION                         *)
(***************************************************************************)
\* C36: for a definition accepted by validation and a step runner whose
\* calls all return, executeWorkflow terminates: once the execution record
\* exists, the call eventually returns or throws (the queue of pending
\* steps runs empty), with status completed or failed.
C36_ExecuteWorkflowTerminates ==
    \A c \in WfCallIds :
        (execs[c].pc = "created") ~>
            (WfEnded(execs[c]) /\ execs[c].status \in {"completed", "failed"})

(***************************************************************************)
(*                  CLAIMS ABOUT CONCURRENT EXECUTIONS                     *)
(***************************************************************************)
\* The runner calls (steps and compensation actions) a history holds.
CallsStarted(log) == Len(IdsOf(log, "step")) + Len(IdsOf(log, "comp"))

\* C31: for one execution id at most one step or compensation action is in
\* flight: no step of the engine hands two calls of one execution to a
\* runner, and a call is handed over while another call of that execution
\* is awaited only by the step in which the awaited call returns or throws,
\* with any number of executions running concurrently.
C31_OneStepInFlight ==
    [][/\ \A c \in DOMAIN execs :
             LET started == CallsStarted(execs'[c].log) - CallsStarted(execs[c].log)
             IN  /\ started <= 1
                 /\ (started = 1 /\ execs[c].pc \in {"inStep", "saving"}) =>
                        (StepThrows(c) \/ SaveThrows(c))
       /\ \A e \in DOMAIN sagas :
             LET started == CallsStarted(sagas'[e].log) - CallsStarted(sagas[e].log)
             IN  /\ started <= 1
                 /\ (started = 1 /\ sagas[e].pc \in {"execStep", "compAction"}) =>
                        \/ SagaStepReturns(e)
                        \/ SagaStepThrows(e)
                        \/ CompensationReturns(e)
                        \/ CompensationThrows(e)]_vars

\* Two executions each have a step in flight at the same moment, and one of
\* them has had a step before.
C31_Witness ==
    \E a, b \in DOMAIN execs :
        /\ a # b
        /\ execs[a].pc = "inStep"
        /\ execs[b].pc = "inStep"
        /\ CallsStarted(execs[a].log) >= 2

\* C32: executions with different ids are independent: a step of the engine
\* that changes the record of one execution (a step, a failure, a
\* compensation, a cancellation) leaves every field of every other
\* execution's record as it was, in every interleaving.
C32_ExecutionsAreIndependent ==
    [][/\ \A a, b \in DOMAIN execs :
             (a # b /\ execs'[a] # execs[a]) => execs'[b] = execs[b]
       /\ \A a, b \in DOMAIN sagas :
             (a # b /\ sagas'[a] # sagas[a]) => sagas'[b] = sagas[b]]_vars

\* One execution was cancelled, and failed after that, while the other is
\* still running with a step in flight.
C32_Witness ==
    \E a, b \in DOMAIN execs :
        /\ a # b
        /\ execs[a].status = "failed"
        /\ HasEmitted(execs[a].log, "workflow.execution.cancelled")
        /\ execs[b].status = "running"
        /\ execs[b].pc = "inStep"

(***************************************************************************)
(*                       CLAIMS ABOUT getExecution                         *)
(***************************************************************************)
\* C34: getExecution is lookup-only and idempotent: a call changes no
\* execution record and no ledger entry, answers undefined for an id the
\* ledger does not hold and the record for one it holds, and the same call
\* made again with nothing changed in between gets the identical answer.
C34_GetExecutionIsLookupOnly ==
    [][\A q \in QueryIds, executionId \in AskedIds :
          GetExecutionCall(q, executionId) =>
             /\ UNCHANGED <<sagas, repo, cache, execs, clock>>
             /\ (executionId \notin DOMAIN execs \/ ~execs[executionId].inLedger)
                    => ~calls'[q].result.found
             /\ (executionId \in DOMAIN execs /\ execs[executionId].inLedger)
                    => /\ calls'[q].result.found
                       /\ calls'[q].result.execution = ExecutionRecord(execs[executionId])
             /\ GetExecution(executionId)' = calls'[q].result
             /\ \A p \in QueryIds :
                   (/\ calls[p].op = "getExecution"
                    /\ calls[p].executionId = executionId
                    /\ calls[p].result = GetExecution(executionId))
                       => calls'[q].result = calls[p].result]_vars

\* A caller asked for an execution while it was running, got its record,
\* and the ledger still holds that record unchanged.
C34_Witness ==
    \E q \in QueryIds :
        /\ calls[q].op = "getExecution"
        /\ calls[q].result.found
        /\ calls[q].result.execution.status = "running"
        /\ calls[q].result.execution.currentStep # 0
        /\ GetExecution(calls[q].executionId) = calls[q].result

====
